---- MODULE Spec2Model ----
(***************************************************************************)
(* Model of the ECDHE/TLS proxy, src/sgx/demo/server/tls_proxy.c.          *)
(*                                                                         *)
(* One process is modelled from main() to its exit: option parsing, the    *)
(* ECDHE set-up on the inbound socket, the TLS set-up on the outbound      *)
(* side, the relay loop of proxy_start() and the teardown.  The inbound    *)
(* peer, the man in the middle on the inbound wire and the TLS server are  *)
(* the environment.                                                        *)
(*                                                                         *)
(* The ECDH library (ecdh_demo.c: init, cleanup, the handshake steps,      *)
(* ecdh_recv_decrypt, ecdh_encrypt_send) is not part of the sources at     *)
(* hand.  Its operations are modelled from the specification (sections     *)
(* 4.2 - 4.4 and 4.8); the definitions that do so carry the prefix ecdh_   *)
(* or the library's own function name and are marked in the model map.     *)
(***************************************************************************)
EXTENDS Integers, Sequences, FiniteSets, TLC

\* ---------------------------------------------------------------- bounds

\* Largest plaintext of one frame and size of tls_msg_buf (scaled down).
ECDH_MAX_MSG_SIZE == 2

\* Frames the inbound peer writes in one session.
MaxFrames == 3

\* Bytes the TLS server writes in one session.
MaxServerBytes == 3

\* Largest value of a nonce counter (stands for 2^64 - 1).
MaxCounter == 1

\* Command-line options given to the process.
MaxArgs == 2

\* Command-line options given to the process where the TLS options are
\* among them.
MaxTlsArgs == 4

\* Command-line options given to the process where the connection limit
\* is among them.
MaxLimitArgs == 3

\* Connections the accept loop accepts in one run of the process.
MaxSessions == 3

\* Calls of proxy_cleanup made one after the other.
MaxCleanups == 3

\* ------------------------------------------------------------- constants

NULL == 0

VARIABLES
  pc,             \* position of the process in main()
  argv,           \* the options getopt_long has not yet taken
  proxy,          \* the TLSProxy structure of main()
  heap,           \* what the pointers of proxy point to
  sock,           \* the accepted inbound socket
  tls,            \* the outbound TLS connection
  revents,        \* pfds[0].revents and pfds[1].revents, POLLIN bit
  ecdh_msg_buf,   \* proxy_start's local: the decrypted inbound message
  ecdh_msg_len,   \* proxy_start's local
  tls_msg_buf,    \* proxy_start's local: the TLS read buffer
  bytes_read,     \* proxy_start's local
  peer_out,       \* frames written by the inbound peer, not yet read
  tls_out,        \* bytes written by the TLS server, not yet read
  hs_log,         \* handshake steps taken on the inbound socket, in order
  peer_written,   \* payload bytes the inbound peer has written
  in_recvd,       \* payload bytes received and decrypted from the peer
  tls_delivered,  \* payload bytes written to the TLS stream
  tls_recvd,      \* payload bytes read from the TLS stream
  peer_delivered, \* frames sealed and sent to the inbound peer
  server_written, \* payload bytes the TLS server has written
  nonces,         \* (direction, counter) pairs used with the session key
  nonce_reused,   \* some pair was used twice
  aead_calls,     \* calls of the AEAD receive and send paths
  teardowns,      \* runs of proxy_cleanup
  err,            \* kind of the error that ended the session
  exit_status,    \* exit status of the process
  invocation,     \* what the command line held when the process started
  accepted,       \* connections the accept loop has accepted
  completed,      \* sessions of accepted connections that have ended
  in_frames,      \* plaintexts ecdh_recv_decrypt returned, one per call
  tls_writes,     \* bytes BIO_write took, one entry per call
  tls_reads,      \* bytes BIO_read returned, one entry per call with n > 0
  wakeup          \* what the loop has done since poll() last returned

locals == <<revents, ecdh_msg_buf, ecdh_msg_len, tls_msg_buf, bytes_read>>
env == <<peer_out, tls_out, peer_written, server_written>>
hist == <<hs_log, in_recvd, tls_delivered, tls_recvd, peer_delivered,
          nonces, nonce_reused, aead_calls>>
prog == <<proxy, heap, sock, tls, teardowns>>
ending == <<err, exit_status>>
outer == <<invocation, accepted, completed>>
units == <<in_frames, tls_writes, tls_reads, wakeup>>
vars == <<pc, argv, prog, locals, env, hist, ending, outer, units>>

\* ------------------------------------------------------------- helpers

Min(a, b) == IF a < b THEN a ELSE b

\* n fresh payload bytes following the bytes of s: bytes are numbered so
\* that a duplicated, skipped or reordered byte shows.
Fresh(s, n) == [i \in 1..n |-> Len(s) + i]

IsPrefix(s, t) == /\ Len(s) <= Len(t)
                  /\ \A i \in 1..Len(s) : s[i] = t[i]

RECURSIVE Flatten(_)
Flatten(fs) == IF fs = <<>> THEN <<>> ELSE Head(fs) \o Flatten(Tail(fs))

Options == {"-I", "-P", "-h", "-x"}

\* Payload lengths of the frames the inbound peer writes: the empty frame,
\* one byte and the largest frame.
FrameLens == {0, 1, ECDH_MAX_MSG_SIZE}

ArgvSet == UNION {[1..n -> Options] : n \in 0..MaxArgs}

\* The options of the TLS client: CA file, client key, client certificate.
TlsOptions == {"-C", "-R", "-U"}

TlsArgvSet == UNION {[1..n -> Options \cup TlsOptions] : n \in 0..MaxTlsArgs}

\* The option -m with its argument.
MaxconnOptions == {"-m0", "-m1", "-m2", "-m-1", "-mx"}

optarg(o) ==
  CASE o = "-m0" -> "0"
    [] o = "-m1" -> "1"
    [] o = "-m2" -> "2"
    [] o = "-m-1" -> "-1"
    [] OTHER -> "x"

LimitArgvSet ==
  UNION {[1..n -> {"-I", "-P"} \cup MaxconnOptions] : n \in 0..MaxLimitArgs}

\* What a command line held: the options on it, the first of them that
\* ends getopt's loop, the last -m.
RECURSIVE FirstIn(_, _)
FirstIn(args, S) ==
  IF args = <<>> THEN "none"
  ELSE IF Head(args) \in S THEN Head(args) ELSE FirstIn(Tail(args), S)

RECURSIVE LastIn(_, _)
LastIn(args, S) ==
  IF args = <<>> THEN "none"
  ELSE IF LastIn(Tail(args), S) # "none" THEN LastIn(Tail(args), S)
       ELSE IF Head(args) \in S THEN Head(args) ELSE "none"

CommandLine(args) ==
  [given |-> {args[i] : i \in 1..Len(args)},
   stop |-> FirstIn(args, {"-h", "-x"}),
   maxconn |-> LastIn(args, MaxconnOptions)]

\* ------------------------------------------------- the TLSProxy structure

\* secure_memset(proxy, 0, sizeof(TLSProxy))
ZeroProxy ==
  [ecdhconn |-> [socket_fd |-> NULL, private_key |-> NULL,
                 public_key |-> NULL, ephemeral |-> NULL,
                 session_key |-> NULL, send_counter |-> 0,
                 recv_counter |-> 0, maxconn |-> 0],
   tlsconn |-> [host |-> NULL, port |-> NULL, ca_path |-> NULL,
                client_key_path |-> NULL, client_cert_path |-> NULL,
                ctx |-> NULL, conn |-> NULL]]

\* init() of the ECDH library: nothing beyond the cleared structure.
ecdh_init(e) == e

proxy_init_value ==
  [ZeroProxy EXCEPT !.ecdhconn = ecdh_init(ZeroProxy.ecdhconn)]

\* ctx_key and ctx_cert: the client key and the client certificate the
\* TLS context has been given.
ZeroHeap == [session_key |-> 0, ephemeral |-> 0,
             long_term |-> "none", ctx |-> "none", conn |-> "none",
             ctx_key |-> FALSE, ctx_cert |-> FALSE]

\* BIO_free_all() and SSL_CTX_free() of an object: a second free of the
\* same object is kept apart from the first.
free_object(o) == IF o = "freed" THEN "freed_twice" ELSE "freed"

\* A plausible slip: the context is not freed.
tls_cleanup_keeps_ctx(tlsconn, h) ==
  [h EXCEPT !.conn = IF tlsconn.conn # NULL THEN free_object(@) ELSE @]

\* tls_cleanup(): BIO_free_all and SSL_CTX_free of what is not NULL.
tls_cleanup(tlsconn, h) ==
  [h EXCEPT !.conn = IF tlsconn.conn # NULL THEN free_object(@) ELSE @,
            !.ctx = IF tlsconn.ctx # NULL THEN free_object(@) ELSE @]

\* BIO_free_all() on a connected BIO closes the TLS connection.
tls_after_free(tlsconn, t) ==
  IF tlsconn.conn # NULL /\ t \in {"connected", "server_closed"}
  THEN "closed" ELSE t

\* cleanup() of the ECDH library (specification 4.8, steps 2 to 4): the
\* session key and the ephemeral key are zeroized and released, the
\* long-term keys stay.
ecdh_cleanup(h) == [h EXCEPT !.session_key = 0, !.ephemeral = 0]

\* cleanup() closes the inbound socket.
ecdh_close(s) == IF s \in {"open", "peer_closed"} THEN "closed" ELSE s

\* A plausible slip: proxy_cleanup() without its proxy_init().
proxy_cleanup_without_init(p, h, t) ==
  /\ heap' = tls_cleanup(p.tlsconn, ecdh_cleanup(h))
  /\ sock' = ecdh_close(sock)
  /\ tls' = tls_after_free(p.tlsconn, t)
  /\ proxy' = p
  /\ teardowns' = teardowns + 1

\* proxy_cleanup(): cleanup(), tls_cleanup(), proxy_init().  p, h and t are
\* the structure, the heap and the TLS connection at the time of the call.
proxy_cleanup(p, h, t) ==
  /\ heap' = tls_cleanup(p.tlsconn, ecdh_cleanup(h))
  /\ sock' = ecdh_close(sock)
  /\ tls' = tls_after_free(p.tlsconn, t)
  /\ proxy' = proxy_init_value
  /\ teardowns' = teardowns + 1

\* A plausible slip: exit(EXIT_FAILURE) without proxy_cleanup().
proxy_error_without_cleanup(kind, p, h, t) ==
  /\ heap' = h
  /\ sock' = sock
  /\ tls' = t
  /\ proxy' = p
  /\ teardowns' = teardowns
  /\ pc' = "exited"
  /\ err' = kind
  /\ exit_status' = "EXIT_FAILURE"

\* A plausible slip: proxy_cleanup(), then exit(EXIT_SUCCESS).
proxy_error_exit_success(kind, p, h, t) ==
  /\ proxy_cleanup(p, h, t)
  /\ pc' = "exited"
  /\ err' = kind
  /\ exit_status' = "EXIT_SUCCESS"

\* proxy_error(): proxy_cleanup(), then exit(EXIT_FAILURE).
proxy_error(kind, p, h, t) ==
  /\ proxy_cleanup(p, h, t)
  /\ pc' = "exited"
  /\ err' = kind
  /\ exit_status' = "EXIT_FAILURE"

\* error() of the ECDH library: a fatal error inside a library call ends
\* the session through the teardown routine (specification 4.8) and the
\* call does not return.
ecdh_error(kind) ==
  /\ proxy_cleanup(proxy, heap, tls)
  /\ pc' = "exited"
  /\ err' = kind
  /\ exit_status' = "EXIT_FAILURE"

\* ------------------------------------------------------------------ Init

\* The process started with one of the command lines of argvs.
Start(argvs) ==
  /\ pc = "get_options"
  /\ argv \in argvs
  /\ invocation = CommandLine(argv)
  /\ proxy = proxy_init_value
  /\ heap = ZeroHeap
  /\ sock = "none"
  /\ tls = "none"
  /\ revents = <<FALSE, FALSE>>
  /\ ecdh_msg_buf = [ptr |-> "null", data |-> <<>>]
  /\ ecdh_msg_len = 0
  /\ tls_msg_buf = <<>>
  /\ bytes_read = 0
  /\ peer_out = <<>>
  /\ tls_out = <<>>
  /\ hs_log = <<>>
  /\ peer_written = <<>>
  /\ in_recvd = <<>>
  /\ tls_delivered = <<>>
  /\ tls_recvd = <<>>
  /\ peer_delivered = <<>>
  /\ server_written = <<>>
  /\ nonces = {}
  /\ nonce_reused = FALSE
  /\ aead_calls = 0
  /\ teardowns = 0
  /\ err = "none"
  /\ exit_status = "none"
  /\ accepted = 0
  /\ completed = 0
  /\ in_frames = <<>>
  /\ tls_writes = <<>>
  /\ tls_reads = <<>>
  /\ wakeup = <<>>

Init == Start(ArgvSet)

\* ------------------------------------------------------ order of the calls

\* A plausible slip: the session key is never derived.
setup_ecdhconn_calls_no_key ==
  <<"create_server_socket", "load_private_key", "load_public_key",
    "make_ephemeral_keypair", "recv_ephemeral_public",
    "send_ephemeral_public">>

\* A plausible slip: the proxy sends its contribution first.
setup_ecdhconn_calls_send_first ==
  <<"create_server_socket", "load_private_key", "load_public_key",
    "make_ephemeral_keypair", "send_ephemeral_public",
    "recv_ephemeral_public", "get_session_key">>

\* setup_ecdhconn(): the calls it makes, in order.
setup_ecdhconn_calls ==
  <<"create_server_socket", "load_private_key", "load_public_key",
    "make_ephemeral_keypair", "recv_ephemeral_public",
    "send_ephemeral_public", "get_session_key">>

\* setup_tlsconn(): the calls it makes, in order.
setup_tlsconn_calls == <<"tls_config_ctx", "tls_config_conn", "tls_connect">>

\* A plausible slip: the TLS connection is set up before the ECDH one.
proxy_main_calls_tls_first ==
  setup_tlsconn_calls \o setup_ecdhconn_calls \o <<"poll">>

\* proxy_main(): setup_ecdhconn(), setup_tlsconn(), proxy_start(); the
\* relay loop of proxy_start() begins at its poll().
proxy_main_calls == setup_ecdhconn_calls \o setup_tlsconn_calls \o <<"poll">>

\* The position reached when the call at position p returns.
After(p) ==
  LET i == CHOOSE k \in 1..Len(proxy_main_calls) : proxy_main_calls[k] = p
  IN  proxy_main_calls[i + 1]

\* ------------------------------------------------------- option parsing

\* A plausible slip: the sign of the argument is dropped.
atoi_unsigned(a) ==
  CASE a = "1" -> 1
    [] a = "2" -> 2
    [] a = "-1" -> 1
    [] OTHER -> 0

\* atoi(optarg): the value of a decimal argument, 0 for any other text.
atoi(a) ==
  CASE a = "1" -> 1
    [] a = "2" -> 2
    [] a = "-1" -> -1
    [] OTHER -> 0

\* The getopt_long loop of proxy_get_options(): the options are taken in
\* order; -h and an unknown option end the loop at once.
RECURSIVE GetOpts(_, _)
GetOpts(args, p) ==
  IF args = <<>> THEN [result |-> "done", proxy |-> p]
  ELSE CASE Head(args) = "-I" ->
              GetOpts(Tail(args), [p EXCEPT !.tlsconn.host = 1])
         [] Head(args) = "-P" ->
              GetOpts(Tail(args), [p EXCEPT !.tlsconn.port = 1])
         [] Head(args) = "-C" ->
              GetOpts(Tail(args), [p EXCEPT !.tlsconn.ca_path = 1])
         [] Head(args) = "-R" ->
              GetOpts(Tail(args), [p EXCEPT !.tlsconn.client_key_path = 1])
         [] Head(args) = "-U" ->
              GetOpts(Tail(args), [p EXCEPT !.tlsconn.client_cert_path = 1])
         [] Head(args) \in MaxconnOptions ->
              GetOpts(Tail(args),
                      [p EXCEPT !.ecdhconn.maxconn = atoi(optarg(Head(args)))])
         [] Head(args) = "-h" -> [result |-> "help", proxy |-> p]
         [] OTHER -> [result |-> "unknown", proxy |-> p]

proxy_get_options ==
  /\ pc = "get_options"
  /\ IF Len(argv) = 0
     THEN \* 1 == argc: usage, exit(EXIT_SUCCESS)
          /\ pc' = "exited"
          /\ exit_status' = "EXIT_SUCCESS"
          /\ UNCHANGED <<prog, err>>
     ELSE LET r == GetOpts(argv, proxy) IN
          CASE r.result = "help" ->
                 /\ pc' = "exited"
                 /\ exit_status' = "EXIT_SUCCESS"
                 /\ proxy' = r.proxy
                 /\ UNCHANGED <<heap, sock, tls, teardowns, err>>
            [] r.result = "unknown" ->
                 proxy_error("ConfigError", proxy, heap, tls)
            [] OTHER ->
                 /\ pc' = "check_options"
                 /\ proxy' = r.proxy
                 /\ UNCHANGED <<heap, sock, tls, teardowns, ending>>
  /\ argv' = <<>>
  /\ UNCHANGED <<outer, locals, units, env, hist>>

\* A plausible slip: only the remote host is asked for.
proxy_check_options_host_only ==
  /\ pc = "check_options"
  /\ IF proxy.tlsconn.host = NULL
     THEN proxy_error("ConfigError", proxy, heap, tls)
     ELSE /\ pc' = Head(proxy_main_calls)
          /\ UNCHANGED <<prog, ending>>
  /\ UNCHANGED <<argv, outer, locals, units, env, hist>>

\* proxy_check_options(): check_options() of the ECDH library asks for
\* none of the options the specification marks as required; the remote
\* host and the remote port must have been given.
proxy_check_options ==
  /\ pc = "check_options"
  /\ IF proxy.tlsconn.host = NULL \/ proxy.tlsconn.port = NULL
     THEN proxy_error("ConfigError", proxy, heap, tls)
     ELSE /\ pc' = Head(proxy_main_calls)
          /\ UNCHANGED <<prog, ending>>
  /\ UNCHANGED <<argv, outer, locals, units, env, hist>>

\* --------------------------------------------- ECDH library: the handshake

\* create_server_socket(): bind, listen and accept one inbound connection.
create_server_socket(ret) ==
  /\ proxy' = [proxy EXCEPT !.ecdhconn.socket_fd = 1]
  /\ sock' = "open"
  /\ pc' = ret
  /\ UNCHANGED <<heap, tls, teardowns, ending, hist>>

\* load_private_key(), load_public_key() (specification 4.1): the key is
\* loaded, or the load fails and nothing is retained.
load_key(field, ret) ==
  \E ok \in BOOLEAN :
    IF ok
    THEN /\ proxy' = [proxy EXCEPT !.ecdhconn[field] = 1]
         /\ heap' = [heap EXCEPT !.long_term = "loaded"]
         /\ pc' = ret
         /\ UNCHANGED <<sock, tls, teardowns, ending>>
    ELSE ecdh_error("KeyLoadError")

\* make_ephemeral_keypair() (specification 4.3, step 1).
make_ephemeral_keypair(ret) ==
  /\ proxy' = [proxy EXCEPT !.ecdhconn.ephemeral = 1]
  /\ heap' = [heap EXCEPT !.ephemeral = 1]
  /\ pc' = ret
  /\ UNCHANGED <<sock, tls, teardowns, ending, hist>>

\* recv_ephemeral_public() (specification 4.3, steps 3 and 4): read the
\* peer's contribution and signature, verify the signature under the
\* peer's public key; a failed verification is an AuthFailure.
recv_ephemeral_public(ret) ==
  \E outcome \in {"ok", "bad_signature", "io_error"} :
    CASE outcome = "ok" ->
           /\ hs_log' = hs_log \o <<"recv", "verify_ok">>
           /\ pc' = ret
           /\ UNCHANGED <<prog, ending>>
      [] outcome = "bad_signature" ->
           /\ hs_log' = hs_log \o <<"recv", "verify_failed">>
           /\ ecdh_error("AuthFailure")
      [] OTHER ->
           /\ hs_log' = hs_log
           /\ ecdh_error("HandshakeFailure")

\* send_ephemeral_public() (specification 4.3, steps 2 and 3): sign the
\* own contribution and send both.
send_ephemeral_public(ret) ==
  \E ok \in BOOLEAN :
    IF ok
    THEN /\ hs_log' = Append(hs_log, "send")
         /\ pc' = ret
         /\ UNCHANGED <<prog, ending>>
    ELSE /\ hs_log' = hs_log
         /\ ecdh_error("HandshakeFailure")

\* get_session_key() (specification 4.3, steps 5 to 7): derive the session
\* key, set both nonce counters to zero, zeroize the ephemeral private key.
get_session_key(ret) ==
  \E ok \in BOOLEAN :
    IF ok
    THEN /\ hs_log' = Append(hs_log, "key")
         /\ proxy' = [proxy EXCEPT !.ecdhconn.session_key = 1,
                                   !.ecdhconn.send_counter = 0,
                                   !.ecdhconn.recv_counter = 0]
         /\ heap' = [heap EXCEPT !.session_key = 1, !.ephemeral = 0]
         /\ pc' = ret
         /\ UNCHANGED <<sock, tls, teardowns, ending>>
    ELSE /\ hs_log' = hs_log
         /\ ecdh_error("HandshakeFailure")

\* ------------------------------------------------------- setup_ecdhconn()

hist_but_hs == <<in_recvd, tls_delivered, tls_recvd, peer_delivered,
                 nonces, nonce_reused, aead_calls>>

setup_create_server_socket ==
  /\ pc = "create_server_socket"
  /\ create_server_socket(After("create_server_socket"))
  /\ UNCHANGED <<argv, outer, locals, units, env>>

setup_load_private_key ==
  /\ pc = "load_private_key"
  /\ load_key("private_key", After("load_private_key"))
  /\ UNCHANGED <<argv, outer, locals, units, env, hist>>

setup_load_public_key ==
  /\ pc = "load_public_key"
  /\ load_key("public_key", After("load_public_key"))
  /\ UNCHANGED <<argv, outer, locals, units, env, hist>>

setup_make_ephemeral_keypair ==
  /\ pc = "make_ephemeral_keypair"
  /\ make_ephemeral_keypair(After("make_ephemeral_keypair"))
  /\ UNCHANGED <<argv, outer, locals, units, env>>

setup_recv_ephemeral_public ==
  /\ pc = "recv_ephemeral_public"
  /\ recv_ephemeral_public(After("recv_ephemeral_public"))
  /\ UNCHANGED <<argv, outer, locals, units, env, hist_but_hs>>

setup_send_ephemeral_public ==
  /\ pc = "send_ephemeral_public"
  /\ send_ephemeral_public(After("send_ephemeral_public"))
  /\ UNCHANGED <<argv, outer, locals, units, env, hist_but_hs>>

setup_get_session_key ==
  /\ pc = "get_session_key"
  /\ get_session_key(After("get_session_key"))
  /\ UNCHANGED <<argv, outer, locals, units, env, hist_but_hs>>

\* -------------------------------------------------------- setup_tlsconn()

\* What can happen in tls_config_ctx(): no context is created; a call
\* made on the context fails (protocol version, trust anchors); the client
\* key or the client certificate, if its path is given, is not taken.
tls_config_ctx_outcomes(tlsconn) ==
  {"ok", "no_ctx", "late_failure"}
    \cup (IF tlsconn.client_key_path # NULL THEN {"key_failure"} ELSE {})
    \cup (IF tlsconn.client_cert_path # NULL THEN {"cert_failure"} ELSE {})

\* tls_config_ctx(): 0, or -1 with the context not yet or already created.
\* The client key is set if its path is given, and the client certificate
\* is set if its path is given, each on its own.
tls_config_ctx(tlsconn, outcome) ==
  [ret |-> IF outcome = "ok" THEN 0 ELSE -1,
   ctx |-> IF outcome = "no_ctx" THEN NULL ELSE 1,
   key |-> /\ tlsconn.client_key_path # NULL
           /\ outcome \in {"ok", "cert_failure"},
   cert |-> /\ tlsconn.client_cert_path # NULL
            /\ outcome = "ok"]

\* tls_config_conn(): 0, or -1 with the BIO not yet or already created.
tls_config_conn(outcome) ==
  [ret |-> IF outcome = "ok" THEN 0 ELSE -1,
   conn |-> IF outcome = "no_conn" THEN NULL ELSE 1]

\* tls_connect(): BIO_do_connect; connection failures and certificate
\* verification failures both give -1.
tls_connect(outcome) ==
  [ret |-> IF outcome = "ok" THEN 0 ELSE -1,
   tls |-> IF outcome = "ok" THEN "connected" ELSE "failed"]

setup_tls_config_ctx ==
  /\ pc = "tls_config_ctx"
  /\ \E outcome \in tls_config_ctx_outcomes(proxy.tlsconn) :
       LET r == tls_config_ctx(proxy.tlsconn, outcome)
           p == [proxy EXCEPT !.tlsconn.ctx = r.ctx]
           h == [heap EXCEPT !.ctx = IF r.ctx # NULL THEN "live" ELSE @,
                             !.ctx_key = r.key, !.ctx_cert = r.cert]
       IN  IF r.ret # 0
           THEN proxy_error("TlsConfigError", p, h, tls)
           ELSE /\ proxy' = p
                /\ heap' = h
                /\ pc' = After("tls_config_ctx")
                /\ UNCHANGED <<sock, tls, teardowns, ending>>
  /\ UNCHANGED <<argv, outer, locals, units, env, hist>>

setup_tls_config_conn ==
  /\ pc = "tls_config_conn"
  /\ \E outcome \in {"ok", "no_conn", "late_failure"} :
       LET r == tls_config_conn(outcome)
           p == [proxy EXCEPT !.tlsconn.conn = r.conn]
           h == [heap EXCEPT !.conn = IF r.conn # NULL THEN "live" ELSE @]
       IN  IF r.ret # 0
           THEN proxy_error("TlsConfigError", p, h, tls)
           ELSE /\ proxy' = p
                /\ heap' = h
                /\ pc' = After("tls_config_conn")
                /\ UNCHANGED <<sock, tls, teardowns, ending>>
  /\ UNCHANGED <<argv, outer, locals, units, env, hist>>

\* A plausible slip: the result of tls_connect() is not looked at.
setup_tls_connect_unchecked ==
  /\ pc = "tls_connect"
  /\ \E outcome \in {"ok", "connect_failure", "verify_failure"} :
       LET r == tls_connect(outcome)
       IN  /\ tls' = r.tls
           /\ pc' = After("tls_connect")
           /\ UNCHANGED <<proxy, heap, sock, teardowns, ending>>
  /\ UNCHANGED <<argv, outer, locals, units, env, hist>>

\* if (tls_connect(tlsconn)) proxy_error(proxy);
setup_tls_connect ==
  /\ pc = "tls_connect"
  /\ \E outcome \in {"ok", "connect_failure", "verify_failure"} :
       LET r == tls_connect(outcome)
       IN  IF r.ret # 0
           THEN proxy_error("CertVerifyFailure", proxy, heap, r.tls)
           ELSE /\ tls' = r.tls
                /\ pc' = After("tls_connect")
                /\ UNCHANGED <<proxy, heap, sock, teardowns, ending>>
  /\ UNCHANGED <<argv, outer, locals, units, env, hist>>

\* ------------------------------------------------ ECDH library: the channel

\* A nonce counter is used up once its largest value has been used
\* (specification 4.4: a counter that would wrap ends the session).
nonce_exhausted(c) == c > MaxCounter

\* A plausible slip: the counter wraps.
next_counter_wrapping(c) == (c + 1) % (MaxCounter + 1)

\* The counter after one more sealed or opened frame.
next_counter(c) == c + 1

\* A plausible slip: the failure is reported and the call returns.
aead_failure_returns(ret) ==
  /\ err' = "AuthFailure"
  /\ pc' = ret
  /\ UNCHANGED <<prog, exit_status>>

\* A failed open (specification 4.4): always fatal to the session, never
\* retried.
aead_failure(ret) == ecdh_error("AuthFailure")

\* ecdh_recv_decrypt() (specification 4.4, receive path): read one frame,
\* open it under the nonce (inbound, recv_counter); a failed open is an
\* AuthFailure; on success the counter is incremented and the plaintext is
\* returned in a new buffer.  A close of the peer ends the session.
ecdh_recv_decrypt(ret) ==
  /\ peer_out # <<>> \/ sock = "peer_closed"
  /\ aead_calls' = aead_calls + 1
  /\ UNCHANGED <<hs_log, tls_delivered, tls_recvd, peer_delivered>>
  /\ IF peer_out = <<>>
     THEN /\ ecdh_error("EndOfStream")
          /\ UNCHANGED <<peer_out, nonces, nonce_reused, in_recvd,
                         ecdh_msg_buf, ecdh_msg_len>>
     ELSE LET f == Head(peer_out)
              c == proxy.ecdhconn.recv_counter
          IN  /\ peer_out' = Tail(peer_out)
              /\ IF nonce_exhausted(c)
                 THEN /\ ecdh_error("NonceExhausted")
                      /\ UNCHANGED <<nonces, nonce_reused, in_recvd,
                                     ecdh_msg_buf, ecdh_msg_len>>
                 ELSE /\ nonces' = nonces \cup {<<"inbound", c>>}
                      /\ nonce_reused' =
                           (nonce_reused \/ <<"inbound", c>> \in nonces)
                      /\ IF ~f.ok
                         THEN /\ aead_failure(ret)
                              /\ UNCHANGED <<in_recvd, ecdh_msg_buf,
                                             ecdh_msg_len>>
                         ELSE /\ proxy' = [proxy EXCEPT
                                   !.ecdhconn.recv_counter = next_counter(c)]
                              /\ ecdh_msg_buf' =
                                   [ptr |-> "live", data |-> f.data]
                              /\ ecdh_msg_len' = Len(f.data)
                              /\ in_recvd' = in_recvd \o f.data
                              /\ pc' = ret
                              /\ UNCHANGED <<heap, sock, tls, teardowns,
                                             ending>>

\* ecdh_encrypt_send() (specification 4.4, send path): seal the payload
\* under the nonce (outbound, send_counter), write it as one frame,
\* increment the counter.
ecdh_encrypt_send(buf, len, ret) ==
  LET c == proxy.ecdhconn.send_counter
      payload == SubSeq(buf, 1, len)
  IN  /\ aead_calls' = aead_calls + 1
      /\ UNCHANGED <<hs_log, in_recvd, tls_delivered, tls_recvd>>
      /\ IF nonce_exhausted(c)
         THEN /\ ecdh_error("NonceExhausted")
              /\ UNCHANGED <<nonces, nonce_reused, peer_delivered>>
         ELSE /\ nonces' = nonces \cup {<<"outbound", c>>}
              /\ nonce_reused' = (nonce_reused \/ <<"outbound", c>> \in nonces)
              /\ \E ok \in BOOLEAN :
                   IF ok
                   THEN /\ peer_delivered' = Append(peer_delivered, payload)
                        /\ proxy' = [proxy EXCEPT
                             !.ecdhconn.send_counter = next_counter(c)]
                        /\ pc' = ret
                        /\ UNCHANGED <<heap, sock, tls, teardowns, ending>>
                   ELSE /\ ecdh_error("FrameIoError")
                        /\ UNCHANGED peer_delivered

\* ---------------------------------------------------------- proxy_start()

\* A plausible slip: the outbound branch is placed first.
proxy_start_poll_outbound_first ==
  /\ pc = "poll"
  /\ LET in0 == peer_out # <<>> \/ sock = "peer_closed"
         in1 == tls_out # <<>> \/ tls = "server_closed"
     IN  \E readable \in BOOLEAN :
           /\ readable => (in0 \/ in1)
           /\ revents' = IF readable THEN <<in0, in1>> ELSE <<FALSE, FALSE>>
  /\ pc' = "outbound"
  /\ wakeup' = <<>>
  /\ UNCHANGED <<argv, outer, prog, env, hist, ending,
                 ecdh_msg_buf, ecdh_msg_len, tls_msg_buf, bytes_read,
                 in_frames, tls_writes, tls_reads>>

\* poll(pfds, NUM_POLL_FDS, -1): returns with the readable descriptors
\* marked POLLIN, or without any (a signal, an error or hang-up event).
proxy_start_poll ==
  /\ pc = "poll"
  /\ LET in0 == peer_out # <<>> \/ sock = "peer_closed"
         in1 == tls_out # <<>> \/ tls = "server_closed"
     IN  \E readable \in BOOLEAN :
           /\ readable => (in0 \/ in1)
           /\ revents' = IF readable THEN <<in0, in1>> ELSE <<FALSE, FALSE>>
  /\ pc' = "inbound"
  /\ wakeup' = <<>>
  /\ UNCHANGED <<argv, outer, prog, env, hist, ending,
                 ecdh_msg_buf, ecdh_msg_len, tls_msg_buf, bytes_read,
                 in_frames, tls_writes, tls_reads>>

\* if (pfds[0].revents & POLLIN) ecdh_recv_decrypt(...)
proxy_start_inbound ==
  /\ pc = "inbound"
  /\ IF revents[1]
     THEN /\ ecdh_recv_decrypt("tls_write")
          /\ IF pc' = "tls_write"
             THEN /\ in_frames' = Append(in_frames, ecdh_msg_buf'.data)
                  /\ wakeup' = Append(wakeup, "recv")
             ELSE UNCHANGED <<in_frames, wakeup>>
     ELSE /\ pc' = "outbound"
          /\ UNCHANGED <<prog, ending, hist, peer_out,
                         ecdh_msg_buf, ecdh_msg_len, in_frames, wakeup>>
  /\ UNCHANGED <<argv, outer, revents, tls_msg_buf, bytes_read,
                 tls_out, peer_written, server_written,
                 tls_writes, tls_reads>>

\* A plausible slip: only a result of zero or less is taken as a failure.
tls_write_failed_nonpositive(bytes_written, len) == bytes_written <= 0

\* A plausible slip: only a negative result is taken as a failure.
tls_write_failed_negative(bytes_written, len) == bytes_written < 0

\* if (bytes_written != ecdh_msg_len)
tls_write_failed(bytes_written, len) == bytes_written # len

\* The first n bytes BIO_write() takes from the buffer; the bytes of a
\* buffer that is not live are not the program's to name (0 marks them).
buffer_bytes(buf, n) ==
  IF buf.ptr = "live" /\ n <= Len(buf.data)
  THEN SubSeq(buf.data, 1, n)
  ELSE [i \in 1..n |-> 0]

\* kmyth_clear_and_free(ecdh_msg_buf, ecdh_msg_len): the bytes are cleared
\* and the buffer is freed; the local pointer keeps its value.  A NULL
\* pointer is left alone, a second free of a buffer is kept apart from
\* the first.
kmyth_clear_and_free(buf) ==
  [ptr |-> CASE buf.ptr = "live" -> "freed"
             [] buf.ptr = "null" -> "null"
             [] OTHER -> "freed_twice",
   data |-> <<>>]

\* A plausible slip: the result of BIO_write() is not looked at.
proxy_start_tls_write_unchecked ==
  /\ pc = "tls_write"
  /\ \E bytes_written \in -1..ecdh_msg_len :
       LET n == IF bytes_written < 0 THEN 0 ELSE bytes_written
       IN  /\ tls_delivered' = tls_delivered \o buffer_bytes(ecdh_msg_buf, n)
           /\ tls_writes' = Append(tls_writes, buffer_bytes(ecdh_msg_buf, n))
           /\ wakeup' = Append(wakeup, "write")
           /\ ecdh_msg_buf' = kmyth_clear_and_free(ecdh_msg_buf)
           /\ pc' = "outbound"
           /\ UNCHANGED <<prog, ending>>
  /\ UNCHANGED <<argv, outer, env, revents, ecdh_msg_len, tls_msg_buf,
                 bytes_read, hs_log, in_recvd, tls_recvd, peer_delivered,
                 nonces, nonce_reused, aead_calls, in_frames, tls_reads>>

\* BIO_write(), the check of its result, kmyth_clear_and_free().
proxy_start_tls_write ==
  /\ pc = "tls_write"
  /\ \E bytes_written \in -1..ecdh_msg_len :
       LET n == IF bytes_written < 0 THEN 0 ELSE bytes_written
       IN  /\ tls_delivered' = tls_delivered \o buffer_bytes(ecdh_msg_buf, n)
           /\ tls_writes' = Append(tls_writes, buffer_bytes(ecdh_msg_buf, n))
           /\ wakeup' = Append(wakeup, "write")
           /\ IF tls_write_failed(bytes_written, ecdh_msg_len)
              THEN /\ proxy_error("RelayWriteFailure", proxy, heap, tls)
                   /\ UNCHANGED ecdh_msg_buf
              ELSE /\ ecdh_msg_buf' = kmyth_clear_and_free(ecdh_msg_buf)
                   /\ pc' = "outbound"
                   /\ UNCHANGED <<prog, ending>>
  /\ UNCHANGED <<argv, outer, env, revents, ecdh_msg_len, tls_msg_buf,
                 bytes_read, hs_log, in_recvd, tls_recvd, peer_delivered,
                 nonces, nonce_reused, aead_calls, in_frames, tls_reads>>

\* A plausible slip: a failed read is taken for the close of the server.
tls_read_closed_nonpositive(n) == n <= 0

\* if (bytes_read == 0)
tls_read_closed(n) == n = 0

\* else if (bytes_read < 0)
tls_read_failed(n) == n < 0

\* if (pfds[1].revents & POLLIN) BIO_read(...) and the check of its result.
proxy_start_outbound ==
  /\ pc = "outbound"
  /\ IF ~revents[2]
     THEN /\ pc' = "poll"
          /\ UNCHANGED <<prog, ending, tls_out, tls_msg_buf, bytes_read,
                         tls_recvd, tls_reads, wakeup>>
     ELSE \E n \in -1..Min(Len(tls_out), ECDH_MAX_MSG_SIZE) :
            /\ n = 0 => (tls_out = <<>> /\ tls = "server_closed")
            /\ wakeup' = Append(wakeup, "read")
            /\ CASE tls_read_closed(n) ->
                      \* "TLS connection is closed": break
                      /\ bytes_read' = n
                      /\ pc' = "proxy_cleanup"
                      /\ UNCHANGED <<prog, ending, tls_out, tls_msg_buf,
                                     tls_recvd, tls_reads>>
                 [] tls_read_failed(n) ->
                      \* "TLS read error"
                      /\ bytes_read' = n
                      /\ proxy_error("RelayReadFailure", proxy, heap, tls)
                      /\ UNCHANGED <<tls_out, tls_msg_buf, tls_recvd,
                                     tls_reads>>
                 [] OTHER ->
                      /\ tls_out' = SubSeq(tls_out, n + 1, Len(tls_out))
                      /\ tls_msg_buf' = SubSeq(tls_out, 1, n) \o
                           SubSeq(tls_msg_buf, n + 1, Len(tls_msg_buf))
                      /\ bytes_read' = n
                      /\ tls_recvd' = tls_recvd \o SubSeq(tls_out, 1, n)
                      /\ tls_reads' = Append(tls_reads, SubSeq(tls_out, 1, n))
                      /\ pc' = "encrypt_send"
                      /\ UNCHANGED <<prog, ending>>
  /\ UNCHANGED <<argv, outer, revents, ecdh_msg_buf, ecdh_msg_len,
                 peer_out, peer_written, server_written,
                 hs_log, in_recvd, tls_delivered, peer_delivered,
                 nonces, nonce_reused, aead_calls, in_frames, tls_writes>>

\* A plausible slip: the whole buffer is sent, not the bytes just read.
proxy_start_encrypt_send_whole_buffer ==
  /\ pc = "encrypt_send"
  /\ ecdh_encrypt_send(tls_msg_buf, Len(tls_msg_buf), "poll")
  /\ wakeup' = IF pc' = "poll" THEN Append(wakeup, "send") ELSE wakeup
  /\ UNCHANGED <<argv, outer, locals, env, in_frames, tls_writes, tls_reads>>

\* A plausible slip: a while in place of the if, the TLS side is read
\* again after the send.
proxy_start_encrypt_send_reads_again ==
  /\ pc = "encrypt_send"
  /\ ecdh_encrypt_send(tls_msg_buf, bytes_read, "outbound")
  /\ wakeup' = IF pc' = "outbound" THEN Append(wakeup, "send") ELSE wakeup
  /\ UNCHANGED <<argv, outer, locals, env, in_frames, tls_writes, tls_reads>>

\* ecdh_encrypt_send(ecdhconn, tls_msg_buf, bytes_read)
proxy_start_encrypt_send ==
  /\ pc = "encrypt_send"
  /\ ecdh_encrypt_send(tls_msg_buf, bytes_read, "poll")
  /\ wakeup' = IF pc' = "poll" THEN Append(wakeup, "send") ELSE wakeup
  /\ UNCHANGED <<argv, outer, locals, env, in_frames, tls_writes, tls_reads>>

\* ------------------------------------------------------------------ main()

\* proxy_main() has returned: proxy_cleanup(), return EXIT_SUCCESS.
main_proxy_cleanup ==
  /\ pc = "proxy_cleanup"
  /\ proxy_cleanup(proxy, heap, tls)
  /\ pc' = "exited"
  /\ exit_status' = "EXIT_SUCCESS"
  /\ UNCHANGED <<argv, outer, locals, units, env, hist, err>>

\* ------------------------------------------------------------ environment

\* The proxy observes the inbound peer and the TLS server in poll() and in
\* the reads that follow it, each of which takes what has arrived by then:
\* a step of the environment is taken while the proxy waits in poll().

\* The inbound peer writes one frame; the man in the middle may tamper
\* with its ciphertext.  Frames behind a tampered frame are left out: the
\* proxy reads none of them.
PeerWrite ==
  /\ pc = "poll"
  /\ sock = "open"
  /\ \A i \in 1..Len(peer_out) : peer_out[i].ok
  /\ Len(peer_written) < MaxFrames
  /\ \E n \in FrameLens, ok \in BOOLEAN :
       LET data == Fresh(Flatten(peer_written), n)
       IN  /\ peer_out' = Append(peer_out, [data |-> data, ok |-> ok])
           /\ peer_written' = Append(peer_written, data)
  /\ UNCHANGED <<pc, argv, outer, prog, locals, units, hist, ending, tls_out,
                 server_written>>

\* The inbound peer closes its side of the connection.
PeerClose ==
  /\ pc = "poll"
  /\ sock = "open"
  /\ sock' = "peer_closed"
  /\ UNCHANGED <<pc, argv, outer, proxy, heap, tls, teardowns, locals,
                 units, env, hist, ending>>

\* The TLS server writes payload bytes.
ServerWrite ==
  /\ pc = "poll"
  /\ tls = "connected"
  /\ \E n \in 1..Min(ECDH_MAX_MSG_SIZE, MaxServerBytes - Len(server_written)) :
       LET data == Fresh(server_written, n)
       IN  /\ tls_out' = tls_out \o data
           /\ server_written' = server_written \o data
  /\ UNCHANGED <<pc, argv, outer, prog, locals, units, hist, ending, peer_out,
                 peer_written>>

\* The TLS server closes the connection.
ServerClose ==
  /\ pc = "poll"
  /\ tls = "connected"
  /\ tls' = "server_closed"
  /\ UNCHANGED <<pc, argv, outer, proxy, heap, sock, teardowns, locals,
                 units, env, hist, ending>>

\* ------------------------------------- ECDH library: the accept loop

\* create_server_socket() binds, listens and accepts; what it does from
\* one connection to the next is not in tls_proxy.c and follows the
\* specification (4.7): one session at a time runs to its end, then the
\* loop accepts again unless maxconn is positive and that many sessions
\* have ended, and then the process exits with status 0.  The session of
\* an accepted connection returns from create_server_socket() into
\* setup_ecdhconn() (the actions of Next); here it is one step.

limit_reached(maxconn, n) == maxconn > 0 /\ n >= maxconn

accept_connection ==
  /\ pc = "create_server_socket"
  /\ accepted = completed
  /\ accepted < MaxSessions
  /\ ~limit_reached(proxy.ecdhconn.maxconn, completed)
  /\ accepted' = accepted + 1
  /\ UNCHANGED <<pc, argv, invocation, completed, prog, locals, units, env,
                 hist, ending>>

session_ends ==
  /\ pc = "create_server_socket"
  /\ completed < accepted
  /\ completed' = completed + 1
  /\ UNCHANGED <<pc, argv, invocation, accepted, prog, locals, units, env,
                 hist, ending>>

accept_loop_exit ==
  /\ pc = "create_server_socket"
  /\ accepted = completed
  /\ limit_reached(proxy.ecdhconn.maxconn, completed)
  /\ pc' = "exited"
  /\ exit_status' = "EXIT_SUCCESS"
  /\ UNCHANGED <<argv, outer, prog, locals, units, env, hist, err>>

Next ==
  \/ proxy_get_options
  \/ proxy_check_options
  \/ setup_create_server_socket
  \/ setup_load_private_key
  \/ setup_load_public_key
  \/ setup_make_ephemeral_keypair
  \/ setup_recv_ephemeral_public
  \/ setup_send_ephemeral_public
  \/ setup_get_session_key
  \/ setup_tls_config_ctx
  \/ setup_tls_config_conn
  \/ setup_tls_connect
  \/ proxy_start_poll
  \/ proxy_start_inbound
  \/ proxy_start_tls_write
  \/ proxy_start_outbound
  \/ proxy_start_encrypt_send
  \/ main_proxy_cleanup
  \/ PeerWrite
  \/ PeerClose
  \/ ServerWrite
  \/ ServerClose

Spec == Init /\ [][Next]_vars

\* The process from its start to the end of its accept loop, with the
\* command lines that hold the connection limit.
LimitInit == Start(LimitArgvSet)

LimitNext ==
  \/ proxy_get_options
  \/ proxy_check_options
  \/ accept_connection
  \/ session_ends
  \/ accept_loop_exit

LimitSpec == LimitInit /\ [][LimitNext]_vars

\* The process from its start to the first poll() of the relay loop, with
\* the command lines that hold the options of the TLS client.
SetupInit == Start(TlsArgvSet)

SetupNext ==
  \/ proxy_get_options
  \/ proxy_check_options
  \/ setup_create_server_socket
  \/ setup_load_private_key
  \/ setup_load_public_key
  \/ setup_make_ephemeral_keypair
  \/ setup_recv_ephemeral_public
  \/ setup_send_ephemeral_public
  \/ setup_get_session_key
  \/ setup_tls_config_ctx
  \/ setup_tls_config_conn
  \/ setup_tls_connect

SetupSpec == SetupInit /\ [][SetupNext]_vars

\* proxy_cleanup() and proxy_error() are not static: a caller may call
\* them whatever the proxy has set up so far, and proxy_cleanup() again
\* after either has run.  The states they are called in are those the
\* process reaches from its start to the first poll().
call_proxy_cleanup ==
  /\ pc # "exited"
  /\ teardowns < MaxCleanups
  /\ proxy_cleanup(proxy, heap, tls)
  /\ pc' = "cleaned"
  /\ UNCHANGED <<argv, outer, locals, units, env, hist, ending>>

call_proxy_error ==
  /\ pc = "cleaned"
  /\ teardowns < MaxCleanups
  /\ proxy_error("CallerError", proxy, heap, tls)
  /\ UNCHANGED <<argv, outer, locals, units, env, hist>>

TeardownNext ==
  \/ SetupNext
  \/ call_proxy_cleanup
  \/ call_proxy_error

TeardownSpec == Init /\ [][TeardownNext]_vars

\* ================================================================= claims

HsSteps == {hs_log[i] : i \in 1..Len(hs_log)}

RelayPcs == {"poll", "inbound", "tls_write", "outbound", "encrypt_send"}

\* The payloads of the frames the inbound peer wrote and the proxy has not
\* read.
Unread == Flatten([i \in 1..Len(peer_out) |-> peer_out[i].data])

\* The process has ended after an inbound connection was accepted.
SessionEnded == pc = "exited" /\ sock # "none"

\* The relay loop was left by its break and main() returned EXIT_SUCCESS.
SessionSucceeded ==
  /\ pc = "exited"
  /\ exit_status = "EXIT_SUCCESS"
  /\ err = "none"
  /\ "key" \in HsSteps

\* C1: in each direction the payload bytes the proxy has delivered are a
\* prefix of the payload bytes it has received in that direction: nothing
\* is duplicated, skipped or reordered, a fatal end only truncates.
C1_DeliveredIsPrefix ==
  /\ IsPrefix(tls_delivered, in_recvd)
  /\ IsPrefix(Flatten(peer_delivered), tls_recvd)

\* C1 witness: a session that relayed in both directions and was then cut
\* short by a short TLS write.
C1_Witness ==
  /\ pc = "exited"
  /\ err = "RelayWriteFailure"
  /\ tls_delivered # <<>>
  /\ Len(tls_delivered) < Len(in_recvd)
  /\ peer_delivered # <<>>

\* C2 as stated: after a successful session the TLS side has been given
\* all the bytes the inbound peer wrote, unread frames included.
C2_AllPeerBytesDelivered ==
  SessionSucceeded => tls_delivered = Flatten(peer_written)

\* C2 as amended: after a successful session the bytes written to the TLS
\* stream are, in order and in full, the bytes of the frames the proxy
\* received; the frames still unread when the TLS side closed are the
\* only bytes of the peer that are missing.
C2_ReceivedBytesDelivered ==
  SessionSucceeded =>
    /\ tls_delivered = in_recvd
    /\ tls_delivered \o Unread = Flatten(peer_written)

\* C2 witness: a successful session that relayed inbound bytes and ended
\* with a frame of the peer unread.
C2_Witness ==
  /\ SessionSucceeded
  /\ tls_delivered # <<>>
  /\ Unread # <<>>

\* C3: as long as the handshake has not completed, the AEAD receive and
\* send paths have not been called, no frame has been sent and the
\* relay loop has not been entered.
C3_NoAeadBeforeHandshake ==
  "key" \notin HsSteps =>
    /\ aead_calls = 0
    /\ peer_delivered = <<>>
    /\ in_recvd = <<>>
    /\ pc \notin RelayPcs

\* C3 witness: the peer's signature did not verify and the session ended
\* without an AEAD call.
C3_Witness ==
  /\ "verify_failed" \in HsSteps
  /\ pc = "exited"
  /\ aead_calls = 0

\* C4: the proxy's contribution is sent only after the peer's has been
\* received, and the session key is derived only after both.
C4_RecvBeforeSendBeforeKey ==
  /\ \A i \in 1..Len(hs_log) :
       /\ hs_log[i] = "send" => \E j \in 1..(i - 1) : hs_log[j] = "recv"
       /\ hs_log[i] = "key" =>
            /\ \E j \in 1..(i - 1) : hs_log[j] = "recv"
            /\ \E j \in 1..(i - 1) : hs_log[j] = "send"
  /\ heap.session_key # 0 => "key" \in HsSteps

\* C4 witness: a completed handshake.
C4_Witness ==
  /\ hs_log = <<"recv", "verify_ok", "send", "key">>
  /\ heap.session_key # 0

\* C5: once the peer's signature has failed to verify, the session has
\* ended with AuthFailure, nothing followed the failed verification on
\* the inbound socket, which is closed, no session key exists and the TLS
\* endpoint was never dialled.
C5_VerifyFailureIsFinal ==
  "verify_failed" \in HsSteps =>
    /\ pc = "exited"
    /\ err = "AuthFailure"
    /\ hs_log = <<"recv", "verify_failed">>
    /\ aead_calls = 0
    /\ peer_delivered = <<>>
    /\ sock = "closed"
    /\ heap.session_key = 0
    /\ tls = "none"
    /\ heap.ctx = "none" /\ heap.conn = "none"

\* C5 witness: a session ended by the failed verification.
C5_Witness ==
  /\ "verify_failed" \in HsSteps
  /\ err = "AuthFailure"
  /\ sock = "closed"

\* The opening of an inbound frame has failed.
AeadOpenFailed == err = "AuthFailure" /\ "key" \in HsSteps

\* The frames the proxy has read from the inbound socket.
FramesRead == Len(peer_written) - Len(peer_out)

\* C6: once the opening of an inbound frame has failed, the session has
\* ended with AuthFailure, the inbound socket is closed, and the TLS
\* stream holds exactly the bytes of the frames before the failed one:
\* no byte of the failed frame or of a later one.
C6_AeadFailureIsFatal ==
  AeadOpenFailed =>
    /\ pc = "exited"
    /\ sock = "closed"
    /\ FramesRead >= 1
    /\ tls_delivered = Flatten(SubSeq(peer_written, 1, FramesRead - 1))

\* C6 witness: a tampered frame with a payload, after a frame that was
\* relayed.
C6_Witness ==
  /\ AeadOpenFailed
  /\ pc = "exited"
  /\ tls_delivered # <<>>
  /\ peer_written[FramesRead] # <<>>

\* C7: no (direction, counter) pair is used twice with the session key;
\* each counter starts at zero and counts the frames of its direction, and
\* no counter value beyond the largest one is used.
C7_NoNonceReuse ==
  /\ ~nonce_reused
  /\ \A n \in nonces : n[2] \in 0..MaxCounter
  /\ "key" \notin HsSteps => nonces = {}
  /\ pc # "exited" =>
       nonces =
         {<<"inbound", i>> : i \in 0..(proxy.ecdhconn.recv_counter - 1)}
         \cup
         {<<"outbound", i>> : i \in 0..(proxy.ecdhconn.send_counter - 1)}
  /\ err = "NonceExhausted" => pc = "exited"

\* C7 witness: a session ended by NonceExhausted after every counter value
\* of one direction was used.
C7_Witness ==
  /\ err = "NonceExhausted"
  /\ \/ {<<"inbound", i>> : i \in 0..MaxCounter} \subseteq nonces
     \/ {<<"outbound", i>> : i \in 0..MaxCounter} \subseteq nonces

\* C8: once the TLS connect has failed, the process has ended through
\* proxy_error, the relay loop was not entered, no payload byte was
\* written to or read from the TLS stream, no frame was exchanged and the
\* inbound socket is closed.
C8_ConnectFailureEndsSession ==
  tls = "failed" =>
    /\ pc = "exited"
    /\ err = "CertVerifyFailure"
    /\ exit_status = "EXIT_FAILURE"
    /\ tls_delivered = <<>>
    /\ tls_recvd = <<>>
    /\ aead_calls = 0
    /\ teardowns = 1
    /\ sock = "closed"

\* C8 witness: a session ended by a failed TLS connect after a completed
\* ECDHE handshake.
C8_Witness ==
  /\ tls = "failed"
  /\ "key" \in HsSteps
  /\ sock = "closed"

\* C9: once the teardown has run, and so after every session that has
\* ended, the memory of the session key is zero.
C9_KeyZeroAfterTeardown ==
  /\ teardowns > 0 => heap.session_key = 0
  /\ SessionEnded => heap.session_key = 0 /\ proxy.ecdhconn.session_key = NULL

\* C9 witness: a session that derived a key, was ended by a TLS read
\* error and left the key memory zero.
C9_Witness ==
  /\ SessionEnded
  /\ "key" \in HsSteps
  /\ err = "RelayReadFailure"
  /\ heap.session_key = 0

ProxySessionFatal ==
  {"CertVerifyFailure", "RelayWriteFailure", "RelayReadFailure"}

\* The errors tls_proxy.c detects while it reads its options and
\* configures TLS.
ProxyStartupFatal == {"ConfigError", "TlsConfigError"}

\* C11 as stated: a TLS connect or verification failure and a relay read
\* or write failure end the session only; the process that ran the session
\* has not exited because of it.
C11_ProcessSurvivesSessionFailure ==
  err \in ProxySessionFatal => pc # "exited" /\ exit_status = "none"

\* C11 amended: every error tls_proxy.c detects, the session-fatal ones
\* like the startup ones, runs the teardown once and then ends the process
\* with exit status EXIT_FAILURE; control does not return to main().
C11_FatalErrorExitsProcess ==
  err \in ProxySessionFatal \cup ProxyStartupFatal =>
    /\ pc = "exited"
    /\ exit_status = "EXIT_FAILURE"
    /\ teardowns = 1
    /\ proxy = proxy_init_value

\* C11 witness: a relay read failure in an established session has ended
\* the process.
C11_Witness ==
  /\ err = "RelayReadFailure"
  /\ "key" \in HsSteps
  /\ pc = "exited"
  /\ exit_status = "EXIT_FAILURE"

\* C12 as stated: after the teardown of a session the connection options
\* (remote host and port) are as they were parsed and the long-term keys
\* that were loaded can still be reached through the structure.
C12_OptionsAndKeysKept ==
  SessionEnded /\ teardowns > 0 =>
    /\ proxy.tlsconn.host # NULL
    /\ proxy.tlsconn.port # NULL
    /\ heap.long_term = "loaded" =>
         proxy.ecdhconn.private_key # NULL /\ proxy.ecdhconn.public_key # NULL

\* C12 amended: the teardown ends with proxy_init(), which clears the
\* whole structure: the connection options and the references to the
\* long-term keys are NULL afterwards, and the process starts no session
\* after a teardown.
C12_TeardownClearsOptionsAndKeys ==
  teardowns > 0 =>
    /\ proxy.tlsconn.host = NULL
    /\ proxy.tlsconn.port = NULL
    /\ proxy.ecdhconn.private_key = NULL
    /\ proxy.ecdhconn.public_key = NULL
    /\ pc = "exited"

\* C12 witness: a session that had loaded the long-term keys was torn
\* down.
C12_Witness ==
  /\ SessionEnded
  /\ teardowns = 1
  /\ heap.long_term = "loaded"
  /\ "key" \in HsSteps
  /\ proxy.tlsconn.host = NULL

\* The connection limit the command line asks for: the positive number
\* of its last -m, 0 where there is none.
Limit ==
  CASE invocation.maxconn = "-m1" -> 1
    [] invocation.maxconn = "-m2" -> 2
    [] OTHER -> 0

\* The accept loop has ended the process.
AcceptLoopExited ==
  pc = "exited" /\ err = "none" /\ invocation.given # {}

\* C13: with a positive limit N the loop accepts again after each session
\* that ended, accepts no more than N connections and ends the process
\* with status 0 once N sessions have ended; with a limit that is zero,
\* negative, not a number or not given the loop never ends the process
\* and accepts again after each session.
C13_MaxconnLimitsSessions ==
  /\ Limit > 0 =>
       /\ accepted <= Limit
       /\ AcceptLoopExited =>
            /\ completed = Limit
            /\ accepted = Limit
            /\ exit_status = "EXIT_SUCCESS"
       /\ pc = "create_server_socket" /\ accepted = completed =>
            IF completed < Limit
            THEN ENABLED accept_connection /\ ~ENABLED accept_loop_exit
            ELSE ENABLED accept_loop_exit /\ ~ENABLED accept_connection
  /\ Limit = 0 =>
       /\ ~AcceptLoopExited
       /\ /\ pc = "create_server_socket"
          /\ accepted = completed
          /\ accepted < MaxSessions
          => ENABLED accept_connection

\* C13 witness: with -m2 two sessions ended and the process exited.
C13_Witness ==
  /\ Limit = 2
  /\ AcceptLoopExited
  /\ completed = 2
  /\ exit_status = "EXIT_SUCCESS"

\* The command line lacks the remote host or the remote port, or holds an
\* option that is not one of the program's.
Misconfigured ==
  \/ "-I" \notin invocation.given
  \/ "-P" \notin invocation.given
  \/ "-x" \in invocation.given

\* The command line is empty, or getopt reaches -h before any option that
\* is not one of the program's: the program prints its usage.
UsageAsked == invocation.given = {} \/ invocation.stop = "-h"

\* C14 as stated: no invocation that lacks a required option or holds an
\* invalid one, the empty one included, exits with status 0 or starts a
\* session.
C14_MisconfigurationNeverExitsZero ==
  Misconfigured => exit_status # "EXIT_SUCCESS" /\ sock = "none"

\* C14 amended: a misconfigured invocation never gets beyond the checks
\* of its options and starts no session; it exits with EXIT_FAILURE after
\* a teardown, except that an empty command line and a -h reached before
\* any invalid option print the usage and exit with status 0; status 0 is
\* otherwise the status of a session that left the relay loop cleanly.
C14_ExitStatusOfStartup ==
  /\ Misconfigured =>
       /\ pc \in {"get_options", "check_options", "exited"}
       /\ sock = "none" /\ tls = "none" /\ hs_log = <<>>
       /\ pc = "exited" =>
            IF UsageAsked
            THEN exit_status = "EXIT_SUCCESS" /\ err = "none"
            ELSE /\ exit_status = "EXIT_FAILURE"
                 /\ err = "ConfigError"
                 /\ teardowns = 1
  /\ exit_status = "EXIT_SUCCESS" =>
       \/ UsageAsked /\ sock = "none"
       \/ ~Misconfigured /\ SessionSucceeded

\* C14 witness: a command line without the remote port was rejected.
C14_Witness ==
  /\ invocation.given = {"-I"}
  /\ pc = "exited"
  /\ exit_status = "EXIT_FAILURE"
  /\ err = "ConfigError"

\* tls_connect() has been called.
TlsConnectAttempted == tls # "none"

\* C15: with exactly one of the client key and the client certificate on
\* the command line the TLS configuration is rejected and tls_connect()
\* is never called; when tls_connect() is called the context holds the
\* key and the certificate if both were given and neither if none was.
C15_KeyAndCertOnlyTogether ==
  LET key == "-R" \in invocation.given
      cert == "-U" \in invocation.given
  IN  /\ key # cert =>
           /\ pc \notin {"tls_config_conn", "tls_connect", "poll"}
           /\ ~TlsConnectAttempted
      /\ TlsConnectAttempted =>
           /\ heap.ctx_key = key
           /\ heap.ctx_cert = cert

\* proxy_start() is over: its buffers are out of scope or were left behind
\* by exit().
RelayLoopLeft == pc \in {"proxy_cleanup", "exited"}

\* C16: once the relay loop is left, by its break, by a TLS write failure
\* or by a TLS read failure, neither the decrypted inbound message buffer
\* nor the TLS read buffer holds a relayed byte.
C16_PlaintextBuffersZeroized ==
  RelayLoopLeft /\ err \in {"none", "RelayWriteFailure", "RelayReadFailure"}
    => ecdh_msg_buf.data = <<>> /\ tls_msg_buf = <<>>

Last(s) == s[Len(s)]

\* Some call of BIO_write took less than the plaintext it was given.
ShortWrite ==
  \E i \in 1..Len(tls_writes) :
    i <= Len(in_frames) /\ tls_writes[i] # in_frames[i]

\* C17: a TLS write that takes less than the payload is a fatal
\* RelayWriteFailure, and such a failure ends the process at once: the
\* failed write is the last thing the loop did, the payload was given to
\* BIO_write once, no frame was read or sent after it.
C17_ShortWriteIsFatal ==
  /\ ShortWrite => err = "RelayWriteFailure"
  /\ err = "RelayWriteFailure" =>
       /\ pc = "exited"
       /\ exit_status = "EXIT_FAILURE"
       /\ teardowns = 1
       /\ sock = "closed"
       /\ Len(tls_writes) = Len(in_frames)
       /\ wakeup = <<"recv", "write">>
       /\ IsPrefix(Last(tls_writes), Last(in_frames))
       /\ tls_delivered = Flatten(tls_writes)

\* C17 witness: a short write ended the session while the inbound peer
\* had a further frame waiting.
C17_Witness ==
  /\ ShortWrite
  /\ err = "RelayWriteFailure"
  /\ pc = "exited"
  /\ peer_out # <<>>

\* The last thing the relay loop did was a call of BIO_read.
ReadWasLast == wakeup # <<>> /\ Last(wakeup) = "read"

\* C18: a TLS read of zero bytes leaves the loop without an error and
\* without a frame for that read, and the process goes through the
\* teardown to exit status 0; a negative TLS read is a fatal
\* RelayReadFailure, also without a frame for that read.
C18_ZeroReadEndsCleanly ==
  /\ ReadWasLast /\ bytes_read = 0 =>
       /\ pc \in {"proxy_cleanup", "exited"}
       /\ err = "none"
       /\ peer_delivered = tls_reads
       /\ pc = "exited" => exit_status = "EXIT_SUCCESS" /\ teardowns = 1
  /\ pc = "proxy_cleanup" => ReadWasLast /\ bytes_read = 0
  /\ ReadWasLast /\ bytes_read < 0 =>
       /\ pc = "exited"
       /\ err = "RelayReadFailure"
       /\ exit_status = "EXIT_FAILURE"
       /\ teardowns = 1
       /\ peer_delivered = tls_reads
  /\ err = "RelayReadFailure" => ReadWasLast /\ bytes_read < 0

\* C18 witness: the TLS server closed after its bytes had been relayed
\* and the process exited with status 0.
C18_Witness ==
  /\ ReadWasLast
  /\ bytes_read = 0
  /\ pc = "exited"
  /\ exit_status = "EXIT_SUCCESS"
  /\ tls_reads # <<>>

\* Entry by entry, s is the beginning of t.
UnitPrefix(s, t) ==
  /\ Len(s) <= Len(t)
  /\ \A i \in 1..Len(s) : s[i] = t[i]

\* C19: the frames sent to the inbound peer are, one for one and byte for
\* byte, the results of the TLS reads that returned data, each of 1 to
\* ECDH_MAX_MSG_SIZE bytes, and the TLS writes are, one for one, the
\* plaintexts of the decrypted inbound frames: at most the unit in hand
\* is outstanding, and no frame or write exists without its read or
\* frame.
C19_UnitsMapOneToOne ==
  /\ UnitPrefix(peer_delivered, tls_reads)
  /\ Len(tls_reads) <= Len(peer_delivered) + 1
  /\ pc \in RelayPcs \ {"encrypt_send"} => peer_delivered = tls_reads
  /\ SessionSucceeded => peer_delivered = tls_reads
  /\ \A i \in 1..Len(tls_reads) :
       Len(tls_reads[i]) \in 1..ECDH_MAX_MSG_SIZE
  /\ Len(tls_writes) <= Len(in_frames)
  /\ Len(in_frames) <= Len(tls_writes) + 1
  /\ \A i \in 1..Len(tls_writes) : IsPrefix(tls_writes[i], in_frames[i])
  /\ err # "RelayWriteFailure" => UnitPrefix(tls_writes, in_frames)
  /\ pc \in RelayPcs \ {"tls_write"} => tls_writes = in_frames
  /\ SessionSucceeded => tls_writes = in_frames

\* C19 witness: two TLS reads and an inbound frame with a payload were
\* relayed and the loop waits again.
C19_Witness ==
  /\ pc = "poll"
  /\ Len(tls_reads) = 2
  /\ peer_delivered = tls_reads
  /\ \E i \in 1..Len(in_frames) : in_frames[i] # <<>>
  /\ tls_writes = in_frames

\* C20: what the loop does between two returns of poll() is, in this
\* order, at most one receive, the TLS write of what was received, at
\* most one TLS read, the send of what was read; when the inbound socket
\* was readable the receive and the write are done before the TLS read is
\* started, also when that read finds the TLS connection closed.
C20_InboundBeforeOutbound ==
  /\ wakeup \in {<<>>, <<"recv">>, <<"recv", "write">>,
                 <<"recv", "write", "read">>,
                 <<"recv", "write", "read", "send">>,
                 <<"read">>, <<"read", "send">>}
  /\ pc \in {"outbound", "encrypt_send", "proxy_cleanup"} /\ revents[1] =>
       /\ Len(wakeup) >= 2
       /\ SubSeq(wakeup, 1, 2) = <<"recv", "write">>
       /\ tls_writes = in_frames
       /\ tls_delivered = in_recvd
  /\ pc \in {"outbound", "encrypt_send", "proxy_cleanup"} /\ ~revents[1] =>
       "recv" \notin {wakeup[i] : i \in 1..Len(wakeup)}

\* C20 witness: an inbound payload and the close of the TLS server were
\* found in the same wakeup; the payload was written before the break.
C20_Witness ==
  /\ pc = "proxy_cleanup"
  /\ revents = <<TRUE, TRUE>>
  /\ wakeup = <<"recv", "write", "read">>
  /\ Last(in_frames) # <<>>
  /\ Last(tls_writes) = Last(in_frames)

\* How often the loop did e since poll() last returned.
Times(e) == Cardinality({i \in 1..Len(wakeup) : wakeup[i] = e})

\* C21: between two returns of poll() the loop receives at most one
\* inbound frame and reads the TLS connection at most once, and when it
\* calls poll() it holds nothing it has received and not forwarded: every
\* decrypted byte was written to TLS, every byte read from TLS was sent,
\* and the decrypted buffer is not live.
C21_OneReadPerWakeupNoQueue ==
  /\ Times("recv") <= 1
  /\ Times("read") <= 1
  /\ pc = "poll" =>
       /\ tls_delivered = in_recvd
       /\ Flatten(peer_delivered) = tls_recvd
       /\ Len(peer_delivered) = Len(tls_reads)
       /\ Len(tls_writes) = Len(in_frames)
       /\ ecdh_msg_buf.ptr # "live"

\* C21 witness: the loop waits again after one read in each direction
\* while both producers have more waiting outside the proxy.
C21_Witness ==
  /\ pc = "poll"
  /\ wakeup = <<"recv", "write", "read", "send">>
  /\ peer_out # <<>>
  /\ tls_out # <<>>

\* poll() has returned without a readable descriptor and the loop has
\* passed both of its branches.
CancelledWakeupOver == pc = "outbound" /\ revents = <<FALSE, FALSE>>

\* C22: a wakeup without readable data ends the relay: after it the loop
\* does not read, forward or call poll() again, its next step leads to the
\* teardown.
C22_CancelledWakeupLeavesLoop ==
  [][CancelledWakeupOver =>
       /\ pc' # "poll"
       /\ UNCHANGED <<in_frames, tls_writes, tls_reads, peer_delivered>>]_vars

\* C23: after proxy_cleanup the structure is what proxy_init produces,
\* with the handles of the TLS connection and of the context NULL; over
\* any sequence of proxy_cleanup and proxy_error calls no TLS object is
\* freed twice, and once a teardown has run nothing is left for a later
\* one to free.
C23_TeardownIdempotent ==
  /\ heap.ctx # "freed_twice"
  /\ heap.conn # "freed_twice"
  /\ teardowns > 0 =>
       /\ pc \in {"cleaned", "exited"}
       /\ proxy = proxy_init_value
       /\ proxy.tlsconn.ctx = NULL /\ proxy.tlsconn.conn = NULL
       /\ heap.ctx # "live" /\ heap.conn # "live"
       /\ heap.session_key = 0 /\ heap.ephemeral = 0
       /\ tls \notin {"connected", "server_closed"}

\* C23 witness: proxy_cleanup ran twice after the TLS connection and its
\* context had been freed once.
C23_Witness ==
  /\ teardowns >= 2
  /\ heap.ctx = "freed"
  /\ heap.conn = "freed"
  /\ tls = "closed"

\* C24: the buffer and the length given to BIO_write are those the
\* ecdh_recv_decrypt call of the same iteration produced, never a buffer
\* that was freed; no buffer is freed twice, and once its write is over
\* every buffer has been freed.
C24_BufferUsedOnceFreedOnce ==
  /\ pc = "tls_write" =>
       /\ ecdh_msg_buf.ptr = "live"
       /\ wakeup = <<"recv">>
       /\ ecdh_msg_buf.data = Last(in_frames)
       /\ ecdh_msg_len = Len(ecdh_msg_buf.data)
  /\ ecdh_msg_buf.ptr # "freed_twice"
  /\ pc # "tls_write" => ecdh_msg_buf.ptr # "live"
====
